---- MODULE Spec2Model ----
(***************************************************************************)
(* Model of package nbd (src/nbd.go): the command loop handle() that       *)
(* serves NBD requests read from one end of a socket pair, and Client(),   *)
(* which binds the other end to a kernel device node by a sequence of     *)
(* ioctls.  Bytes are 0..255; the scratch buffer is modelled by its first  *)
(* View bytes; uint32 / uint64 values are kept as big-endian tuples of     *)
(* 16-bit limbs so that arithmetic modulo 2^32 is exact.                   *)
(***************************************************************************)
EXTENDS Integers, Sequences, FiniteSets, TLC

----------------------------------------------------------------------------
(* Bounds of the model *)

MaxReq == 2          \* frames the kernel side sends in one run
MaxLen == 2          \* largest payload length that fits the modelled view
MaxFaults == 1       \* transport reads that return short, 0 or -1
MaxNodes == 2        \* device nodes /dev/nbd0 .. that may exist
MaxQueue == 2        \* requests the kernel side has outstanding (unanswered)
StoreSize == 3       \* bytes of the backing store

----------------------------------------------------------------------------
(* Program constants *)

NBD_CMD_READ == 0
NBD_CMD_WRITE == 1
NBD_CMD_DISC == 2
NBD_CMD_FLUSH == 3
NBD_CMD_TRIM == 4
NBD_REQUEST_MAGIC == 627086611
NBD_REPLY_MAGIC == 1732535960
BufSize == 1048576
HdrLen == 28
TrimError == 1

\* a magic the protocol forbids ("Do *not* use magics: 0x12560953")
BadMagic == 307628371
\* a command number outside the enum
UnknownCmd == 5

View == HdrLen + MaxLen

----------------------------------------------------------------------------
(* Fixed-width integers *)

Min(a, b) == IF a < b THEN a ELSE b
Max(a, b) == IF a < b THEN b ELSE a

\* the uint32 with value k, 0 <= k < 2^31, as <<high limb, low limb>>
U32(k) == <<k \div 65536, k % 65536>>

\* uint32(n) for an int n >= -65536
Uint32OfInt(n) == IF n >= 0 THEN U32(n) ELSE <<65535, 65536 + n>>

\* k + u in uint32 arithmetic, 0 <= k < 65536
U32Add(k, u) ==
    LET s == u[2] + k
    IN  <<(u[1] + (s \div 65536)) % 65536, s % 65536>>

U32Less(a, b) == a[1] < b[1] \/ (a[1] = b[1] /\ a[2] < b[2])

U32Leq(a, b) == a = b \/ U32Less(a, b)

\* the value of a uint32 known to be at most BufSize
U32Int(u) == u[1] * 65536 + u[2]

\* binary.BigEndian.Uint32 of a 4-byte slice
Uint32(b) == <<b[1] * 256 + b[2], b[3] * 256 + b[4]>>

\* binary.BigEndian.Uint64 of an 8-byte slice
Uint64(b) == <<b[1] * 256 + b[2], b[3] * 256 + b[4],
               b[5] * 256 + b[6], b[7] * 256 + b[8]>>

\* the 4 bytes binary.BigEndian.PutUint32 stores for v, 0 <= v < 2^31
PutUint32(v) == <<(v \div 16777216) % 256, (v \div 65536) % 256,
                  (v \div 256) % 256, v % 256>>

\* the 4 bytes of a uint32 given by its limbs
BytesOfU32(u) == <<u[1] \div 256, u[1] % 256, u[2] \div 256, u[2] % 256>>

\* the 8 bytes of a uint64 with value k, 0 <= k < 65536
BytesOfU64(k) == <<0, 0, 0, 0, 0, 0, k \div 256, k % 256>>

----------------------------------------------------------------------------
(* Byte slices.  Go's buf[a:b] is SubSeq(buf, a+1, b). *)

Slice(b, lo, hi) == SubSeq(b, lo + 1, hi)

\* copy the bytes p into b starting at offset at
Splice(b, at, p) ==
    [j \in 1..Len(b) |->
        IF j > at /\ j <= at + Len(p) THEN p[j - at] ELSE b[j]]

Take(s, k) == SubSeq(s, 1, k)
Drop(s, k) == SubSeq(s, k + 1, Len(s))

\* a slice expression buf[lo:hi] is in range (no run-time panic); lo is an
\* int, hi a uint32
SliceOK(lo, hi) == U32Leq(hi, U32(BufSize)) /\ 0 <= lo /\ lo <= U32Int(hi)

----------------------------------------------------------------------------
(* Request frames the peer of the loop's socket may send *)

\* the (handle, offset) pairs of the read and write frames
Targets == {<<7, 0>>, <<9, 2>>}

\* a length for which 16+len exceeds the buffer, and one for which 28+len
\* wraps around modulo 2^32
LenTooBig == U32(BufSize)
LenWrap == <<65535, 65508>>

SmallLens == {U32(l) : l \in 0..MaxLen}

Frame(m, t, h, o, l, d) ==
    [magic |-> m, typus |-> t, handle |-> h, from |-> o, len |-> l, data |-> d]

NoData == << >>

ReadFrames ==
    {Frame(NBD_REQUEST_MAGIC, NBD_CMD_READ, t[1], t[2], l, NoData) :
        t \in Targets, l \in SmallLens}

\* the payload of a write of l bytes: distinct bytes, so that their order shows
Payload(l) == [j \in 1..l |-> 170 + j]

WriteFrames ==
    {Frame(NBD_REQUEST_MAGIC, NBD_CMD_WRITE, t[1], t[2], U32(l), Payload(l)) :
        t \in Targets, l \in 0..MaxLen}

FlushTrimFrames ==
    { Frame(NBD_REQUEST_MAGIC, NBD_CMD_FLUSH, 7, 0, U32(1), NoData),
      Frame(NBD_REQUEST_MAGIC, NBD_CMD_TRIM, 9, 2, U32(1), NoData) }

\* the frames of the four served commands, lengths within the buffer
WellFormed == ReadFrames \cup WriteFrames \cup FlushTrimFrames

OtherFrames ==
    { Frame(NBD_REQUEST_MAGIC, NBD_CMD_DISC, 7, 0, U32(0), NoData),
      Frame(NBD_REQUEST_MAGIC, UnknownCmd, 7, 0, U32(0), NoData),
      Frame(BadMagic, NBD_CMD_READ, 7, 0, U32(1), NoData),
      Frame(NBD_REPLY_MAGIC, NBD_CMD_READ, 9, 0, U32(1), NoData),
      Frame(NBD_REQUEST_MAGIC, NBD_CMD_READ, 9, 0, LenTooBig, NoData),
      Frame(NBD_REQUEST_MAGIC, NBD_CMD_WRITE, 9, 0, LenWrap, NoData) }

Frames == WellFormed \cup OtherFrames

\* the few frames sent when the whole program is explored
CoreFrames ==
    { Frame(NBD_REQUEST_MAGIC, NBD_CMD_READ, 7, 0, U32(1), NoData),
      Frame(NBD_REQUEST_MAGIC, NBD_CMD_WRITE, 9, 0, U32(2), Payload(2)),
      Frame(NBD_REQUEST_MAGIC, NBD_CMD_FLUSH, 7, 0, U32(0), NoData),
      Frame(NBD_REQUEST_MAGIC, NBD_CMD_DISC, 7, 0, U32(0), NoData) }

\* the bytes of a frame on the wire: 28 header bytes, then the payload
Encode(f) ==
    PutUint32(f.magic) \o PutUint32(f.typus) \o BytesOfU64(f.handle)
        \o BytesOfU64(f.from) \o BytesOfU32(f.len) \o f.data

----------------------------------------------------------------------------
(* State *)

VARIABLES
    hpc,        \* position of handle(): "idle", "hdr", "wfirst", "wloop", "panic"
    buf,        \* first View bytes of handle's scratch buffer
    x,          \* handle's decoded request
    n,          \* handle's count of payload bytes read (an int)
    panicmsg,   \* the value handle panicked with, "" if none
    sock,       \* bytes sent to fd[1] and not yet read
    shut,       \* the peer has shut the socket down (reads return 0)
    wrote,      \* the byte slice handle last passed to syscall.Write
    nwrote,     \* number of syscall.Write calls handle has made
    store,      \* contents of the Device
    dcall,      \* the last call handle made on the Device
    ndev,       \* number of calls handle has made on the Device
    iter,       \* number of iterations handle has begun (header reads)
    reads,      \* number of syscall.Read calls of the current iteration
    pending,    \* the frames sent to fd[1] and not yet replied to, oldest first
    nsent,      \* number of frames sent to fd[1]
    faults,     \* number of reads that were short header reads, 0 or -1
    lossy,      \* the transport may deliver a header short, or fail
    cpc,        \* position of Client()
    i,          \* Client's loop index
    nbd,        \* Client's nbd: index of the node last opened, NoNode if nil
    err,        \* Client's err
    locked,     \* LockOSThread calls minus UnlockOSThread calls
    ioctls,     \* the ioctls issued, in order
    nodes,      \* number of device nodes that exist: /dev/nbd0 .. nodes-1
    dead        \* the process has exited after a panic

outvars == <<wrote, nwrote, pending>>
devvars == <<store, dcall, ndev>>
loopvars == <<hpc, buf, x, n, panicmsg, iter, reads, devvars>>
wirevars == <<sock, shut, nsent, faults, lossy>>
clientvars == <<cpc, i, nbd, err, locked, ioctls, nodes>>
vars == <<loopvars, outvars, wirevars, clientvars, dead>>

NoNode == -1
Nil == [op |-> "nil", path |-> NoNode]

\* request as decoded by handle (src lines 84-88)
Decode(b) ==
    [magic  |-> Uint32(Slice(b, 0, 4)),
     typus  |-> Uint32(Slice(b, 4, 8)),
     handle |-> Uint64(Slice(b, 8, 16)),
     from   |-> Uint64(Slice(b, 16, 24)),
     len    |-> Uint32(Slice(b, 24, 28))]

ZeroBuf == [j \in 1..View |-> 0]

----------------------------------------------------------------------------
(* The Device: a store of StoreSize bytes.  An offset is the int64 with the
   bits of x.from (int64(x.from) reinterprets the same 64 bits), kept as its
   four limbs; it is inside the store when it is non-negative and small. *)

InitStore == [j \in 0..(StoreSize - 1) |-> 16 + j]

Avail(off) ==
    IF off[1] = 0 /\ off[2] = 0 /\ off[3] = 0 /\ off[4] <= StoreSize
    THEN StoreSize - off[4] ELSE 0

StoreSlice(st, off, k) == [j \in 1..k |-> st[off[4] + j - 1]]

\* the results (n, err == nil) a call on a slice of L bytes may have: all L
\* bytes when they lie inside the store, or fewer bytes and an error
DeviceOutcomes(L, off) ==
    (IF L <= Avail(off) THEN {[n |-> L, ok |-> TRUE]} ELSE {})
    \cup {[n |-> j, ok |-> FALSE] : j \in 0..Min(Max(L - 1, 0), Avail(off))}

\* the store after WriteAt transferred the first k bytes of p to off
StoreWrite(st, off, p, k) ==
    [j \in DOMAIN st |->
        IF j >= off[4] /\ j < off[4] + k THEN p[j - off[4] + 1] ELSE st[j]]

----------------------------------------------------------------------------
(* The transport: syscall.Read(fd, p) with len(p) = r *)

\* the kernel holds fd[0]: an NBD_SET_SOCK succeeded.  Until then both ends
\* of the socket pair belong to this process, which neither writes to fd[0]
\* nor closes it, so a read of fd[1] blocks
Attached ==
    \E j \in 1..Len(ioctls) : ioctls[j].op = "NBD_SET_SOCK" /\ ioctls[j].res = "ok"

\* sizes of short deliveries of a 28-byte header that the model tries
ShortHdr == {4, 16}

ReadResults(r, hdr) ==
    LET avail == Len(sock)
        full == Min(r, avail)
        mayFault == lossy /\ faults < MaxFaults /\ Attached
    IN  IF r = 0 THEN {0}
        ELSE {k \in 1..full :
                IF hdr THEN k = HdrLen \/ (mayFault /\ (k = full \/ k \in ShortHdr))
                       ELSE TRUE}
             \cup (IF mayFault /\ avail = 0 /\ shut THEN {0} ELSE {})
             \cup (IF mayFault THEN {-1} ELSE {})

IsFault(k, r, hdr) == IF hdr THEN k # HdrLen ELSE r > 0 /\ k <= 0

\* the effect of one syscall.Read that returned k on the transport
Received(k, r, hdr) ==
    /\ sock' = Drop(sock, Max(k, 0))
    /\ faults' = IF IsFault(k, r, hdr) THEN faults + 1 ELSE faults
    /\ UNCHANGED <<shut, nsent, lossy>>

\* syscall.Write(fd, p): the peer takes p as the reply to the oldest request
\* it has outstanding
Written(p) ==
    /\ wrote' = p
    /\ nwrote' = nwrote + 1
    /\ pending' = IF pending = << >> THEN pending ELSE Tail(pending)

NoCall == [op |-> "none", off |-> <<0, 0, 0, 0>>, len |-> 0, n |-> 0, ok |-> TRUE,
           data |-> << >>]

\* a call on the Device
Called(c) ==
    /\ dcall' = c
    /\ ndev' = ndev + 1

----------------------------------------------------------------------------
(* handle(fd, d) *)

\* buf after the reply magic and the error code e were stored (lines 97-98)
Reply(b, e) == Splice(Splice(b, 0, PutUint32(NBD_REPLY_MAGIC)), 4, PutUint32(e))

Panic(msg, b) ==
    /\ hpc' = "panic"
    /\ panicmsg' = msg
    /\ buf' = b
    /\ UNCHANGED <<n, outvars, devvars>>

DevCall(o, off, L, r, d) ==
    [op |-> o, off |-> off, len |-> L, n |-> r.n, ok |-> r.ok, data |-> d]

\* CmdRead writing the reply header only
CmdReadHeaderOnly(b, rq) ==
    LET hi == U32Add(16, rq.len)
    IN  IF ~SliceOK(16, hi) THEN Panic("slice bounds out of range", b)
        ELSE \E r \in DeviceOutcomes(U32Int(hi) - 16, rq.from) :
               LET L == U32Int(hi) - 16
                   p == StoreSlice(store, rq.from, r.n)
                   b3 == Reply(Splice(b, 16, p), 0)
               IN  /\ Called(DevCall("ReadAt", rq.from, L, r, p))
                   /\ buf' = b3
                   /\ Written(Slice(b3, 0, 16))
                   /\ hpc' = "hdr"
                   /\ UNCHANGED <<n, panicmsg, store>>

CmdRead(b, rq) ==
    LET hi == U32Add(16, rq.len)
    IN  IF ~SliceOK(16, hi) THEN Panic("slice bounds out of range", b)
        ELSE \E r \in DeviceOutcomes(U32Int(hi) - 16, rq.from) :
               LET L == U32Int(hi) - 16
                   p == StoreSlice(store, rq.from, r.n)
                   b3 == Reply(Splice(b, 16, p), 0)
               IN  /\ Called(DevCall("ReadAt", rq.from, L, r, p))
                   /\ buf' = b3
                   /\ Written(Slice(b3, 0, U32Int(hi)))
                   /\ hpc' = "hdr"
                   /\ UNCHANGED <<n, panicmsg, store>>

CmdWriteBegin(b, rq) ==
    IF ~SliceOK(28, U32Add(28, rq.len)) THEN Panic("slice bounds out of range", b)
    ELSE /\ hpc' = "wfirst"
         /\ buf' = b
         /\ UNCHANGED <<n, panicmsg, outvars, devvars>>

\* CmdFlushTrim without the syscall.Write
CmdFlushTrimNoReply(b) ==
    /\ buf' = Reply(b, TrimError)
    /\ hpc' = "hdr"
    /\ UNCHANGED <<n, panicmsg, outvars, devvars>>

\* CmdFlushTrim storing error code 0
CmdFlushTrimSuccess(b) ==
    LET b3 == Reply(b, 0)
    IN  /\ buf' = b3
        /\ Written(Slice(b3, 0, 16))
        /\ hpc' = "hdr"
        /\ UNCHANGED <<n, panicmsg, devvars>>

CmdFlushTrim(b) ==
    LET b3 == Reply(b, TrimError)
    IN  /\ buf' = b3
        /\ Written(Slice(b3, 0, 16))
        /\ hpc' = "hdr"
        /\ UNCHANGED <<n, panicmsg, devvars>>

\* Dispatch answering an unknown command like a flush instead of panicking
DispatchLenient(b, rq) ==
    IF rq.magic \notin {U32(NBD_REPLY_MAGIC), U32(NBD_REQUEST_MAGIC)}
    THEN Panic("Invalid packet", b)
    ELSE IF rq.typus = U32(NBD_CMD_READ) THEN CmdRead(b, rq)
    ELSE IF rq.typus = U32(NBD_CMD_WRITE) THEN CmdWriteBegin(b, rq)
    ELSE IF rq.typus = U32(NBD_CMD_DISC) THEN Panic("Disconnect", b)
    ELSE CmdFlushTrim(b)

Dispatch(b, rq) ==
    IF rq.magic \notin {U32(NBD_REPLY_MAGIC), U32(NBD_REQUEST_MAGIC)}
    THEN Panic("Invalid packet", b)
    ELSE IF rq.typus = U32(NBD_CMD_READ) THEN CmdRead(b, rq)
    ELSE IF rq.typus = U32(NBD_CMD_WRITE) THEN CmdWriteBegin(b, rq)
    ELSE IF rq.typus = U32(NBD_CMD_DISC) THEN Panic("Disconnect", b)
    ELSE IF rq.typus \in {U32(NBD_CMD_FLUSH), U32(NBD_CMD_TRIM)} THEN CmdFlushTrim(b)
    ELSE Panic("unknown command", b)

\* one iteration of the loop up to the end of the switch; for a write, up to
\* the first payload read
ReadRequest ==
    /\ hpc = "hdr" /\ ~dead
    /\ \E k \in ReadResults(HdrLen, TRUE) :
         LET b1 == Splice(buf, 0, Take(sock, Max(k, 0)))
         IN  /\ Received(k, HdrLen, TRUE)
             /\ x' = Decode(b1)
             /\ Dispatch(b1, Decode(b1))
    /\ iter' = iter + 1
    /\ reads' = 1
    /\ UNCHANGED <<clientvars, dead>>

\* number of payload bytes still wanted after c were read
Wanted(c) == U32Int(U32Add(28, x.len)) - (28 + c)

\* n, _ := syscall.Read(fd, buf[28:28+x.len])
WriteFirstRead ==
    /\ hpc = "wfirst" /\ ~dead
    /\ \E k \in ReadResults(Wanted(0), FALSE) :
         /\ Received(k, Wanted(0), FALSE)
         /\ buf' = Splice(buf, 28, Take(sock, Max(k, 0)))
         /\ n' = k
    /\ hpc' = "wloop"
    /\ reads' = reads + 1
    /\ UNCHANGED <<x, panicmsg, iter, outvars, devvars, clientvars, dead>>

\* the loop condition uint32(n) < x.len
MorePayload == U32Less(Uint32OfInt(n), x.len)

\* WriteLoopRead reading every delivery into buf[28:]
WriteLoopReadAtStart ==
    /\ hpc = "wloop" /\ ~dead
    /\ MorePayload
    /\ \E m \in ReadResults(Wanted(n), FALSE) :
         /\ Received(m, Wanted(n), FALSE)
         /\ buf' = Splice(buf, 28, Take(sock, Max(m, 0)))
         /\ n' = n + m
    /\ reads' = reads + 1
    /\ UNCHANGED <<hpc, x, panicmsg, iter, outvars, devvars, clientvars, dead>>

\* m, _ := syscall.Read(fd, buf[28+n:28+x.len]); n += m
WriteLoopRead ==
    /\ hpc = "wloop" /\ ~dead
    /\ MorePayload
    /\ \E m \in ReadResults(Wanted(n), FALSE) :
         /\ Received(m, Wanted(n), FALSE)
         /\ buf' = Splice(buf, 28 + n, Take(sock, Max(m, 0)))
         /\ n' = n + m
    /\ reads' = reads + 1
    /\ UNCHANGED <<hpc, x, panicmsg, iter, outvars, devvars, clientvars, dead>>

\* d.WriteAt, then the reply
WriteFinish ==
    /\ hpc = "wloop" /\ ~dead
    /\ ~MorePayload
    /\ LET L == Wanted(0)
           p == Slice(buf, 28, 28 + L)
           b3 == Reply(buf, 0)
       IN  \E r \in DeviceOutcomes(L, x.from) :
             /\ store' = StoreWrite(store, x.from, p, r.n)
             /\ Called(DevCall("WriteAt", x.from, L, r, p))
             /\ buf' = b3
             /\ Written(Slice(b3, 0, 16))
    /\ hpc' = "hdr"
    /\ UNCHANGED <<x, n, panicmsg, iter, reads, wirevars, clientvars, dead>>

----------------------------------------------------------------------------
(* Client(d, offset, size) *)

BlockSize == 4096
DeviceSize == 8192

PathError(op, node) == [op |-> op, path |-> node]

Ioctl(node, op, arg, res) == [node |-> node, op |-> op, arg |-> arg, res |-> res]

\* fd, err := syscall.Socketpair(...); if err != nil { return err }
Socketpair ==
    /\ cpc = "socketpair" /\ ~dead
    /\ \E ok \in BOOLEAN :
         IF ok THEN cpc' = "go" /\ err' = Nil
         ELSE cpc' = "returned" /\ err' = PathError("socketpair", NoNode)
    /\ UNCHANGED <<i, nbd, locked, ioctls, nodes, loopvars, outvars, wirevars, dead>>

\* go handle(fd[1], d)
GoHandle ==
    /\ cpc = "go" /\ ~dead
    /\ cpc' = "lock"
    /\ hpc' = "hdr"
    /\ buf' = ZeroBuf
    /\ UNCHANGED <<x, n, panicmsg, iter, reads, devvars, outvars>>
    /\ UNCHANGED <<i, nbd, err, locked, ioctls, nodes, wirevars, dead>>

\* LockOSThread leaving the goroutine unlocked
LockOSThreadSkip ==
    /\ cpc = "lock" /\ ~dead
    /\ i' = 0
    /\ cpc' = "open"
    /\ UNCHANGED <<nbd, err, locked, ioctls, nodes, loopvars, outvars, wirevars, dead>>

\* runtime.LockOSThread(), then i := 0
LockOSThread ==
    /\ cpc = "lock" /\ ~dead
    /\ locked' = locked + 1
    /\ i' = 0
    /\ cpc' = "open"
    /\ UNCHANGED <<nbd, err, ioctls, nodes, loopvars, outvars, wirevars, dead>>

\* nbd, err = os.Open("/dev/nbd<i>"); if err != nil { return err }
Open ==
    /\ cpc = "open" /\ ~dead
    /\ IF i < nodes
       THEN nbd' = i /\ err' = Nil /\ cpc' = "NBD_SET_SOCK"
       ELSE nbd' = NoNode /\ err' = PathError("open", i) /\ cpc' = "returned"
    /\ UNCHANGED <<i, locked, ioctls, nodes, loopvars, outvars, wirevars, dead>>

\* SetSock without the break: the search goes on after a node was claimed
SetSockNoBreak ==
    /\ cpc = "NBD_SET_SOCK" /\ ~dead
    /\ \E ok \in BOOLEAN :
         /\ ioctls' = Append(ioctls,
                Ioctl(nbd, "NBD_SET_SOCK", 0, IF ok THEN "ok" ELSE "fail"))
         /\ IF ok THEN err' = Nil /\ cpc' = "open" /\ i' = i + 1
            ELSE err' = PathError("NBD_SET_SOCK", nbd) /\ cpc' = "open" /\ i' = i + 1
    /\ UNCHANGED <<nbd, locked, nodes, loopvars, outvars, wirevars, dead>>

\* SetSock without the i++
SetSockSameNode ==
    /\ cpc = "NBD_SET_SOCK" /\ ~dead
    /\ \E ok \in BOOLEAN :
         /\ ioctls' = Append(ioctls,
                Ioctl(nbd, "NBD_SET_SOCK", 0, IF ok THEN "ok" ELSE "fail"))
         /\ IF ok THEN err' = Nil /\ cpc' = "NBD_SET_BLKSIZE" /\ i' = i
            ELSE err' = PathError("NBD_SET_SOCK", nbd) /\ cpc' = "open" /\ i' = i
    /\ UNCHANGED <<nbd, locked, nodes, loopvars, outvars, wirevars, dead>>

\* err = ioctl(nbd.Fd(), NBD_SET_SOCK, fd[0]); break if nil, else i++
SetSock ==
    /\ cpc = "NBD_SET_SOCK" /\ ~dead
    /\ \E ok \in BOOLEAN :
         /\ ioctls' = Append(ioctls,
                Ioctl(nbd, "NBD_SET_SOCK", 0, IF ok THEN "ok" ELSE "fail"))
         /\ IF ok THEN err' = Nil /\ cpc' = "NBD_SET_BLKSIZE" /\ i' = i
            ELSE err' = PathError("NBD_SET_SOCK", nbd) /\ cpc' = "open" /\ i' = i + 1
    /\ UNCHANGED <<nbd, locked, nodes, loopvars, outvars, wirevars, dead>>

\* ChainStep going on to the next ioctl after a failure
ChainStepGoOn(op, arg, next) ==
    /\ cpc = op /\ ~dead
    /\ \E ok \in BOOLEAN :
         /\ ioctls' = Append(ioctls, Ioctl(nbd, op, arg, IF ok THEN "ok" ELSE "fail"))
         /\ IF ok THEN err' = Nil /\ cpc' = next
            ELSE err' = PathError("ioctl " \o op, nbd) /\ cpc' = next
    /\ UNCHANGED <<i, nbd, locked, nodes, loopvars, outvars, wirevars, dead>>

\* one arm of the if / else-if chain: the ioctl op with argument arg; on
\* success the chain goes on to next, on failure err names op and the node
ChainStep(op, arg, next) ==
    /\ cpc = op /\ ~dead
    /\ \E ok \in BOOLEAN :
         /\ ioctls' = Append(ioctls, Ioctl(nbd, op, arg, IF ok THEN "ok" ELSE "fail"))
         /\ IF ok THEN err' = Nil /\ cpc' = next
            ELSE err' = PathError("ioctl " \o op, nbd) /\ cpc' = "unlock"
    /\ UNCHANGED <<i, nbd, locked, nodes, loopvars, outvars, wirevars, dead>>

SetBlkSize == ChainStep("NBD_SET_BLKSIZE", BlockSize, "NBD_SET_SIZE_BLOCKS")

SetSizeBlocks ==
    ChainStep("NBD_SET_SIZE_BLOCKS", DeviceSize \div BlockSize, "NBD_SET_FLAGS")

SetFlags == ChainStep("NBD_SET_FLAGS", 1, "BLKROSET")

BlkRoSet == ChainStep("BLKROSET", 0, "NBD_DO_IT")

\* DoItCall reading the Device from Client's goroutine before it blocks
DoItCallProbe ==
    /\ cpc = "NBD_DO_IT" /\ ~dead
    /\ ioctls' = Append(ioctls, Ioctl(nbd, "NBD_DO_IT", 0, "pending"))
    /\ cpc' = "running"
    /\ Called(DevCall("ReadAt", <<0, 0, 0, 0>>, 0, [n |-> 0, ok |-> TRUE], << >>))
    /\ UNCHANGED <<hpc, buf, x, n, panicmsg, iter, reads, store>>
    /\ UNCHANGED <<i, nbd, err, locked, nodes, outvars, wirevars, dead>>

\* ioctl(nbd.Fd(), NBD_DO_IT, 0) is entered and blocks
DoItCall ==
    /\ cpc = "NBD_DO_IT" /\ ~dead
    /\ ioctls' = Append(ioctls, Ioctl(nbd, "NBD_DO_IT", 0, "pending"))
    /\ cpc' = "running"
    /\ UNCHANGED <<i, nbd, err, locked, nodes, loopvars, outvars, wirevars, dead>>

\* the kernel unblocks NBD_DO_IT, with or without an error
DoItReturn ==
    /\ cpc = "running" /\ ~dead
    /\ \E ok \in BOOLEAN :
         /\ ioctls' = [ioctls EXCEPT ![Len(ioctls)].res = IF ok THEN "ok" ELSE "fail"]
         /\ IF ok THEN err' = Nil /\ cpc' = "NBD_DISCONNECT"
            ELSE err' = PathError("ioctl NBD_DO_IT", nbd) /\ cpc' = "unlock"
    /\ UNCHANGED <<i, nbd, locked, nodes, loopvars, outvars, wirevars, dead>>

Disconnect == ChainStep("NBD_DISCONNECT", 0, "NBD_CLEAR_SOCK")

ClearSock == ChainStep("NBD_CLEAR_SOCK", 0, "unlock")

\* runtime.UnlockOSThread(); return err
UnlockOSThread ==
    /\ cpc = "unlock" /\ ~dead
    /\ locked' = locked - 1
    /\ cpc' = "returned"
    /\ UNCHANGED <<i, nbd, err, ioctls, nodes, loopvars, outvars, wirevars, dead>>

----------------------------------------------------------------------------
(* The kernel at the other end of the socket pair, and the Go runtime *)

DoItIssued == \E j \in 1..Len(ioctls) : ioctls[j].op = "NBD_DO_IT"

\* while NBD_DO_IT runs the kernel sends a request frame of F to the loop
Send(F) ==
    /\ cpc = "running" /\ ~dead /\ ~shut /\ hpc # "panic"
    /\ nsent < MaxReq
    /\ Len(pending) < MaxQueue
    /\ \E f \in F :
         /\ sock' = sock \o Encode(f)
         /\ pending' = Append(pending, f)
    /\ nsent' = nsent + 1
    /\ UNCHANGED <<shut, faults, lossy, wrote, nwrote, loopvars, clientvars, dead>>

KernelSend == Send(CoreFrames)

\* the same, the frame being any frame of the model
KernelSendAny == Send(Frames)

\* once NBD_DO_IT has ended the kernel shuts its end of the socket down
KernelShutdown ==
    /\ DoItIssued /\ cpc # "running" /\ ~shut /\ ~dead
    /\ shut' = TRUE
    /\ UNCHANGED <<sock, nsent, faults, lossy, outvars, loopvars, clientvars, dead>>

\* an unrecovered panic in a goroutine ends the whole process
ProcessExit ==
    /\ hpc = "panic" /\ ~dead
    /\ dead' = TRUE
    /\ UNCHANGED <<loopvars, outvars, wirevars, clientvars>>

----------------------------------------------------------------------------
(* The whole program, on a transport that delivers every header in full and
   never fails *)

Init ==
    /\ hpc = "idle"
    /\ buf = ZeroBuf
    /\ x = Decode(ZeroBuf)
    /\ n = 0
    /\ panicmsg = ""
    /\ sock = << >>
    /\ shut = FALSE
    /\ wrote = << >>
    /\ nwrote = 0
    /\ store = InitStore
    /\ dcall = NoCall
    /\ ndev = 0
    /\ iter = 0
    /\ reads = 0
    /\ pending = << >>
    /\ nsent = 0
    /\ faults = 0
    /\ lossy = FALSE
    /\ cpc = "socketpair"
    /\ i = 0
    /\ nbd = NoNode
    /\ err = Nil
    /\ locked = 0
    /\ ioctls = << >>
    /\ nodes \in 0..MaxNodes
    /\ dead = FALSE

Next ==
    \/ ReadRequest
    \/ WriteFirstRead
    \/ WriteLoopRead
    \/ WriteFinish
    \/ Socketpair
    \/ GoHandle
    \/ LockOSThread
    \/ Open
    \/ SetSock
    \/ SetBlkSize
    \/ SetSizeBlocks
    \/ SetFlags
    \/ BlkRoSet
    \/ DoItCall
    \/ DoItReturn
    \/ Disconnect
    \/ ClearSock
    \/ UnlockOSThread
    \/ KernelSend
    \/ KernelShutdown
    \/ ProcessExit

Spec == Init /\ [][Next]_vars

\* the steps of Client up to the claim of a node: none of them blocks, so
\* the goroutine that runs Client takes them
SearchNext == Socketpair \/ GoHandle \/ LockOSThread \/ Open \/ SetSock

FairSpec == Spec /\ WF_vars(SearchNext)

----------------------------------------------------------------------------
(* handle() on its own: the state when Client has claimed node 0 and blocks
   in NBD_DO_IT, and the loop is at the top of its first iteration *)

RunningIoctls ==
    << Ioctl(0, "NBD_SET_SOCK", 0, "ok"),
       Ioctl(0, "NBD_SET_BLKSIZE", BlockSize, "ok"),
       Ioctl(0, "NBD_SET_SIZE_BLOCKS", DeviceSize \div BlockSize, "ok"),
       Ioctl(0, "NBD_SET_FLAGS", 1, "ok"),
       Ioctl(0, "BLKROSET", 0, "ok"),
       Ioctl(0, "NBD_DO_IT", 0, "pending") >>

HandleStart(l) ==
    /\ hpc = "hdr"
    /\ buf = ZeroBuf
    /\ x = Decode(ZeroBuf)
    /\ n = 0
    /\ panicmsg = ""
    /\ sock = << >>
    /\ shut = FALSE
    /\ wrote = << >>
    /\ nwrote = 0
    /\ store = InitStore
    /\ dcall = NoCall
    /\ ndev = 0
    /\ iter = 0
    /\ reads = 0
    /\ pending = << >>
    /\ nsent = 0
    /\ faults = 0
    /\ lossy = l
    /\ cpc = "running"
    /\ i = 0
    /\ nbd = 0
    /\ err = Nil
    /\ locked = 1
    /\ ioctls = RunningIoctls
    /\ nodes = 1
    /\ dead = FALSE

\* the transport delivers every header in full and never fails, and the
\* peer may send any frame of the model
InitHandle == HandleStart(FALSE)

NextHandle ==
    \/ ReadRequest
    \/ WriteFirstRead
    \/ WriteLoopRead
    \/ WriteFinish
    \/ KernelSendAny
    \/ ProcessExit

SpecHandle == InitHandle /\ [][NextHandle]_vars

\* the transport may deliver a header short or fail, MaxFaults times at most
InitLossy == HandleStart(TRUE)

NextLossy ==
    \/ ReadRequest
    \/ WriteFirstRead
    \/ WriteLoopRead
    \/ WriteFinish
    \/ KernelSend
    \/ ProcessExit

SpecLossy == InitLossy /\ [][NextLossy]_vars

----------------------------------------------------------------------------
(* Vocabulary of the properties *)

Last(q) == q[Len(q)]

RECURSIVE Flatten(_, _)
\* the wire bytes of the frames fs[k], fs[k+1], ...
Flatten(fs, k) == IF k > Len(fs) THEN << >> ELSE Encode(fs[k]) \o Flatten(fs, k + 1)

\* a 16-byte reply header
ReplyHeader(e, handleBytes) == PutUint32(NBD_REPLY_MAGIC) \o PutUint32(e) \o handleBytes

\* the step is a header read that received all 28 bytes of the next frame
FullHeaderStep ==
    /\ hpc = "hdr"
    /\ Len(sock) >= HdrLen
    /\ iter' = iter + 1
    /\ Len(sock') = Len(sock) - HdrLen

\* the request in the first 28 unread bytes
Arriving == Decode(Take(sock, HdrLen))
ArrivingHandle == Slice(sock, 8, 16)

\* the arriving request is a read, write, flush or trim whose length fits
\* the buffer
ArrivingWellFormed ==
    /\ Arriving.magic = U32(NBD_REQUEST_MAGIC)
    /\ Arriving.typus \in {U32(c) : c \in {NBD_CMD_READ, NBD_CMD_WRITE,
                                           NBD_CMD_FLUSH, NBD_CMD_TRIM}}
    /\ U32Leq(Arriving.len, U32(BufSize - HdrLen))

\* the step called the Device
DeviceStep == ndev' = ndev + 1

\* the step wrote to the socket
WriteStep == nwrote' = nwrote + 1

----------------------------------------------------------------------------
(* C1: as long as the transport has delivered in full and the loop has not
   panicked, every frame sent is either replied to or still outstanding
   (replies plus outstanding frames equal the frames sent), the bytes still
   unread when the loop is about to read a header are exactly the
   outstanding frames, so that every request whose header was consumed has
   had its reply before the next header is read, and while the loop reads a
   payload the oldest outstanding frame is the write it has decoded.  Every
   write to the socket is the reply to the oldest outstanding frame: it
   carries that frame's handle and takes it, and only it, off the
   outstanding frames; and a read, write, flush or trim request that fits the
   buffer does not stop the loop. *)
C1_Pairing ==
    /\ [](  (faults = 0 /\ hpc \in {"hdr", "wfirst", "wloop"}) =>
              /\ nwrote + Len(pending) = nsent
              /\ hpc = "hdr" => sock = Flatten(pending, 1)
              /\ hpc \in {"wfirst", "wloop"} =>
                   /\ pending # << >>
                   /\ Head(pending).typus = NBD_CMD_WRITE
                   /\ x = Decode(Encode(Head(pending))) )
    /\ [][ (faults = 0 /\ faults' = 0) =>
             /\ WriteStep =>
                  /\ pending # << >>
                  /\ Slice(wrote', 8, 16) = BytesOfU64(Head(pending).handle)
                  /\ pending' = Tail(pending)
                  /\ hpc' = "hdr"
             /\ (FullHeaderStep /\ ArrivingWellFormed) => hpc' # "panic"
             /\ (hpc \in {"wfirst", "wloop"} /\ hpc' = "hdr") => WriteStep
             /\ (FullHeaderStep /\ hpc' = "hdr") => WriteStep
         ]_vars

\* a write to node offset 2 (handle 9), then a read (handle 7), were served
C1_Witness ==
    /\ faults = 0
    /\ nsent = 2 /\ nwrote = 2 /\ ndev = 2
    /\ store[2] = Payload(1)[1]
    /\ dcall.op = "ReadAt"
    /\ Slice(wrote, 8, 16) = BytesOfU64(7)
    /\ pending = << >> /\ sock = << >>

(* C2: a read request received in full, with a length that fits the buffer,
   makes the loop call ReadAt exactly once, with the request's offset and a
   slice of the request's length; when ReadAt succeeds the loop writes once,
   16 + L bytes: the reply magic, error 0, the request's handle and the L
   bytes of the store at the offset. *)
C2_ReadResult ==
    [][ ( /\ FullHeaderStep
          /\ Arriving.magic = U32(NBD_REQUEST_MAGIC)
          /\ Arriving.typus = U32(NBD_CMD_READ)
          /\ U32Leq(Arriving.len, U32(BufSize - 16)) )
        => LET L == U32Int(Arriving.len)
           IN  /\ DeviceStep
               /\ dcall'.op = "ReadAt" /\ dcall'.off = Arriving.from /\ dcall'.len = L
               /\ store' = store
               /\ dcall'.ok =>
                    /\ WriteStep
                    /\ wrote' = ReplyHeader(0, ArrivingHandle)
                                  \o StoreSlice(store, Arriving.from, L)
                    /\ Len(wrote') = 16 + L
      ]_vars

C2_Witness ==
    /\ ndev = 1 /\ nwrote = 1
    /\ dcall.op = "ReadAt" /\ dcall.ok
    /\ dcall.len = 2 /\ dcall.off = U32(0) \o U32(0)
    /\ wrote = ReplyHeader(0, BytesOfU64(7)) \o <<16, 17>>

(* C3: while the transport delivers without failure, a step that calls
   WriteAt serves the oldest outstanding frame, a write: it is the only
   Device call of the step, it happens when all L payload bytes have been
   read (n = L), its slice is the L payload bytes of the frame in sending
   order and its offset the frame's, and the step writes a 16-byte reply with
   error 0 and the frame's handle; the loop does not leave the payload reads
   in any other way. *)
C3_WriteAssembly ==
    [][ (faults = 0 /\ faults' = 0) =>
          /\ (DeviceStep /\ dcall'.op = "WriteAt") =>
               /\ hpc = "wloop"
               /\ pending # << >>
               /\ LET f == Head(pending)
                  IN  /\ f.typus = NBD_CMD_WRITE
                      /\ n = U32Int(f.len)
                      /\ dcall'.len = U32Int(f.len)
                      /\ dcall'.data = f.data
                      /\ dcall'.off = Uint64(BytesOfU64(f.from))
                      /\ WriteStep
                      /\ wrote' = ReplyHeader(0, BytesOfU64(f.handle))
          /\ (hpc \in {"wfirst", "wloop"} /\ hpc' # hpc) =>
               \/ hpc = "wfirst" /\ hpc' = "wloop"
               \/ hpc' = "hdr" /\ DeviceStep /\ dcall'.op = "WriteAt"
      ]_vars

\* a 2-byte write was served whose payload came in two deliveries
C3_Witness ==
    /\ faults = 0
    /\ nsent = 1 /\ reads = 3 /\ hpc = "hdr"
    /\ ndev = 1 /\ dcall.op = "WriteAt" /\ dcall.ok
    /\ dcall.data = Payload(2)
    /\ nwrote = 1 /\ wrote = ReplyHeader(0, BytesOfU64(7))

\* the step served a flush or trim request received in full
FlushTrimStep ==
    /\ FullHeaderStep
    /\ Arriving.magic = U32(NBD_REQUEST_MAGIC)
    /\ Arriving.typus \in {U32(NBD_CMD_FLUSH), U32(NBD_CMD_TRIM)}

\* the step called neither ReadAt nor WriteAt and wrote one 16-byte reply
\* with error code e and the request's handle
FlushTrimReply(e) ==
    /\ UNCHANGED devvars
    /\ WriteStep
    /\ wrote' = ReplyHeader(e, ArrivingHandle)
    /\ Len(wrote') = 16

(* C4, as claimed: a flush or trim request makes the loop call neither ReadAt
   nor WriteAt and write exactly 16 bytes, with error field 0 and the
   request's handle. *)
C4_Original == [][FlushTrimStep => FlushTrimReply(0)]_vars

(* C4, amended: a flush or trim request makes the loop call neither ReadAt
   nor WriteAt and write exactly 16 bytes, with error field 1 and the
   request's handle. *)
C4_FlushTrim == [][FlushTrimStep => FlushTrimReply(TrimError)]_vars

\* a flush and then a trim (handle 9) were served
C4_Witness ==
    /\ faults = 0
    /\ nsent = 2 /\ nwrote = 2 /\ iter = 2
    /\ x.typus = U32(NBD_CMD_TRIM)
    /\ ndev = 0
    /\ wrote = ReplyHeader(1, BytesOfU64(9))

\* the loop has decoded a disconnect command
DiscDecoded ==
    /\ iter > 0
    /\ x.magic \in {U32(NBD_REPLY_MAGIC), U32(NBD_REQUEST_MAGIC)}
    /\ x.typus = U32(NBD_CMD_DISC)

(* C5, as claimed: once the loop has decoded a disconnect command it has
   ended without a panic, and the process has not been ended by it. *)
C5_Claim == DiscDecoded => (panicmsg = "" /\ ~dead)

\* the decoded magic or command is one the loop does not serve
Unserved(rq) ==
    \/ rq.magic \notin {U32(NBD_REPLY_MAGIC), U32(NBD_REQUEST_MAGIC)}
    \/ rq.typus \notin {U32(c) : c \in NBD_CMD_READ..NBD_CMD_TRIM}

(* C6: a header read after which the decoded magic is neither magic, or the
   decoded command is none of 0..4, stops the loop with a panic in the same
   step, without a reply and without a Device call; and a loop that has
   panicked reads nothing more, writes nothing and calls nothing. *)
C6_Fatal ==
    [][ /\ (hpc = "hdr" /\ iter' = iter + 1 /\ Unserved(x')) =>
             /\ hpc' = "panic"
             /\ panicmsg' \in {"Invalid packet", "unknown command"}
             /\ UNCHANGED <<outvars, devvars>>
        /\ hpc = "panic" =>
             /\ hpc' = "panic"
             /\ UNCHANGED <<iter, reads, sock, outvars, devvars>>
      ]_vars

\* a request was served, then one with a command the loop does not know
\* ended the process
C6_Witness ==
    /\ hpc = "panic" /\ panicmsg = "unknown command" /\ dead
    /\ faults = 0
    /\ x.typus = U32(UnknownCmd)
    /\ nsent = 2 /\ nwrote = 1 /\ iter = 2

(* C7, as claimed: on a transport that delivers without failure, a step in
   which the Device was called writes one reply, whose error field is 0
   exactly when the call transferred all the bytes without an error, and
   leaves the loop ready for the next request. *)
C7_Claim ==
    [][ (DeviceStep /\ faults' = 0) =>
          /\ WriteStep
          /\ Slice(wrote', 4, 8) = PutUint32(0) <=> (dcall'.ok /\ dcall'.n = dcall'.len)
          /\ hpc' = "hdr"
      ]_vars

----------------------------------------------------------------------------
(* Properties of Client *)

\* the ioctls of a complete binding, in the order of the source
Order ==
    << "NBD_SET_SOCK", "NBD_SET_BLKSIZE", "NBD_SET_SIZE_BLOCKS", "NBD_SET_FLAGS",
       "BLKROSET", "NBD_DO_IT", "NBD_DISCONNECT", "NBD_CLEAR_SOCK" >>

\* positions in ioctls of the NBD_SET_SOCK calls that succeeded
Claims == {j \in 1..Len(ioctls) : ioctls[j].op = "NBD_SET_SOCK" /\ ioctls[j].res = "ok"}

NoClaim == Claims = {}

(* C8: from the NBD_SET_SOCK that succeeded on, the ioctls issued are an
   initial part of the sequence set-socket, set-block-size,
   set-size-in-blocks, set-flags, read-only-toggle, run, disconnect,
   clear-socket, all on the node of that set-socket, each one issued once and
   only after all earlier ones succeeded (only the last one issued may have
   failed); and when Client has returned after a failure, err names the
   failed operation and that node. *)
C8_Order ==
    \A c \in Claims :
        /\ \A j \in c..Len(ioctls) :
             /\ j - c + 1 <= Len(Order)
             /\ ioctls[j].op = Order[j - c + 1]
             /\ ioctls[j].node = ioctls[c].node
             /\ j < Len(ioctls) => ioctls[j].res = "ok"
        /\ Last(ioctls).res = "fail" =>
             /\ cpc \in {"unlock", "returned"}
             /\ err = PathError("ioctl " \o Last(ioctls).op, ioctls[c].node)

C8_Witness ==
    /\ cpc = "returned"
    /\ nodes = 2 /\ nbd = 1
    /\ Len(ioctls) = 5
    /\ Last(ioctls).op = "NBD_SET_FLAGS" /\ Last(ioctls).res = "fail"
    /\ err = PathError("ioctl NBD_SET_FLAGS", 1)

(* C9, as claimed: when Client has returned and NBD_DO_IT had returned, with
   success or with an error, NBD_DISCONNECT and after it NBD_CLEAR_SOCK were
   issued on the node NBD_DO_IT ran on. *)
C9_Claim ==
    (cpc = "returned" /\ \E j \in 1..Len(ioctls) :
                            ioctls[j].op = "NBD_DO_IT" /\ ioctls[j].res # "pending")
    => \E j, k \in 1..Len(ioctls) :
          /\ j < k
          /\ ioctls[j].op = "NBD_DISCONNECT" /\ ioctls[j].node = nbd
          /\ ioctls[k].op = "NBD_CLEAR_SOCK" /\ ioctls[k].node = nbd

(* C10: as long as no NBD_SET_SOCK has succeeded, the ioctls issued are one
   failed NBD_SET_SOCK on each of the nodes 0, 1, 2, ... in this order and
   nothing else, the index never passes the number of nodes, and when Client
   has returned (the socket pair having been made) it has tried all the
   nodes and returns the non-nil error of opening the node after the last;
   and Client does come to return or to claim a node. *)
C10_Safe ==
    NoClaim =>
        /\ ioctls = [j \in 1..Len(ioctls) |-> Ioctl(j - 1, "NBD_SET_SOCK", 0, "fail")]
        /\ Len(ioctls) <= nodes
        /\ i <= nodes
        /\ cpc \notin {"NBD_SET_BLKSIZE", "NBD_SET_SIZE_BLOCKS", "NBD_SET_FLAGS",
                       "BLKROSET", "NBD_DO_IT", "running", "NBD_DISCONNECT",
                       "NBD_CLEAR_SOCK", "unlock"}
        /\ (cpc = "returned" /\ err.op # "socketpair") =>
             /\ Len(ioctls) = nodes
             /\ err # Nil
             /\ err = PathError("open", nodes)

C10_Exhaustion == []C10_Safe /\ <>(cpc = "returned" \/ ~NoClaim)

C10_Witness ==
    /\ cpc = "returned"
    /\ nodes = 2
    /\ NoClaim
    /\ Len(ioctls) = 2
    /\ err = PathError("open", 2)

----------------------------------------------------------------------------
(* Properties of the loop on a transport that may fail *)

\* the step is a header read that received fewer than 28 bytes: a short
\* delivery, 0 at the end of the stream, or -1
ShortHeaderStep ==
    /\ hpc = "hdr"
    /\ iter' = iter + 1
    /\ Len(sock') > Len(sock) - HdrLen

(* C11, as claimed: a header read that delivers fewer than 28 bytes does not
   make the loop dispatch a command: the step calls no backing-store
   operation, writes no reply and does not begin to read a write payload. *)
C11_Claim ==
    [][ ShortHeaderStep =>
          /\ ndev' = ndev
          /\ nwrote' = nwrote
          /\ hpc' \notin {"wfirst", "wloop"}
      ]_vars

(* C12, as claimed: the loop calls WriteAt, and writes the reply of a write
   request, only when it has received all the payload bytes the request
   declares (n = x.len); a payload read that returned -1 or 0 before that
   does not lead to either. *)
C12_Claim ==
    [][ (hpc = "wloop" /\ (DeviceStep \/ WriteStep)) => n = U32Int(x.len) ]_vars

----------------------------------------------------------------------------
(* The whole program when every activity that can take a step does take one:
   the goroutine of Client (the kernel does let NBD_DO_IT return), the
   goroutine of handle, and the runtime ending the process after a panic *)

ClientNext ==
    \/ Socketpair \/ GoHandle \/ LockOSThread \/ Open \/ SetSock
    \/ SetBlkSize \/ SetSizeBlocks \/ SetFlags \/ BlkRoSet
    \/ DoItCall \/ DoItReturn \/ Disconnect \/ ClearSock \/ UnlockOSThread

HandleNext == ReadRequest \/ WriteFirstRead \/ WriteLoopRead \/ WriteFinish

LiveSpec ==
    Spec /\ WF_vars(ClientNext) /\ WF_vars(HandleNext) /\ WF_vars(ProcessExit)

\* op was issued on the node Client holds, and succeeded
Issued(op) ==
    \E j \in 1..Len(ioctls) :
        ioctls[j].op = op /\ ioctls[j].node = nbd /\ ioctls[j].res = "ok"

\* Client has returned after NBD_DISCONNECT and NBD_CLEAR_SOCK on its node
Released == cpc = "returned" /\ Issued("NBD_DISCONNECT") /\ Issued("NBD_CLEAR_SOCK")

(* C13, as claimed: when the loop has decoded a disconnect command while
   Client is blocked in NBD_DO_IT, Client eventually leaves NBD_DO_IT, issues
   NBD_DISCONNECT and NBD_CLEAR_SOCK on its node, and returns. *)
C13_Claim == (DiscDecoded /\ cpc = "running") ~> Released

----------------------------------------------------------------------------
(* More properties of Client *)

\* the ioctls that configure a claimed node
ConfigOps == {"NBD_SET_BLKSIZE", "NBD_SET_SIZE_BLOCKS", "NBD_SET_FLAGS", "BLKROSET"}

(* C14, as claimed: when Client has returned after one of the four
   configuration ioctls failed on the node it had claimed, NBD_CLEAR_SOCK
   was issued on that node after the failure. *)
C14_Claim ==
    \A j \in 1..Len(ioctls) :
        (cpc = "returned" /\ ioctls[j].op \in ConfigOps /\ ioctls[j].res = "fail")
        => \E k \in (j + 1)..Len(ioctls) :
              ioctls[k].op = "NBD_CLEAR_SOCK" /\ ioctls[k].node = ioctls[j].node

(* C15: every ioctl Client issues (each NBD_SET_SOCK of the search, the four
   configuration ioctls, NBD_DO_IT, NBD_DISCONNECT, NBD_CLEAR_SOCK), and the
   return of NBD_DO_IT, happens while the goroutine is locked to its thread,
   and stays locked over it; from the first ioctl until Client returns the
   lock is held, so it is not released between two ioctls. *)
C15_Pinning ==
    /\ []((ioctls # << >> /\ cpc # "returned") => locked = 1)
    /\ [][ ioctls' # ioctls => (locked = 1 /\ locked' = 1) ]_vars

\* the eight ioctls of a complete session were issued, the lock still held
C15_Witness ==
    /\ cpc = "unlock" /\ locked = 1
    /\ nodes = 2 /\ nbd = 1
    /\ Len(ioctls) = 9
    /\ Last(ioctls).op = "NBD_CLEAR_SOCK" /\ Last(ioctls).res = "ok"

(* C16: the Device is used by the loop alone.  Every step that calls ReadAt
   or WriteAt, or changes the store, is a step of handle's goroutine (at its
   header read or at the end of its payload reads) that makes exactly one
   call and leaves Client's state as it is; so no step of Client calls the
   Device, and the calls, all made one after the other by the one goroutine
   of handle, never overlap, however the steps of the two are interleaved. *)
C16_SingleThreaded ==
    [][ (ndev' # ndev \/ dcall' # dcall \/ store' # store) =>
          /\ ndev' = ndev + 1
          /\ hpc \in {"hdr", "wloop"}
          /\ iter' # iter \/ hpc' # hpc
          /\ UNCHANGED clientvars
      ]_vars

\* the loop called the Device twice, the second time while Client was
\* already past NBD_DO_IT
C16_Witness ==
    /\ ndev = 2 /\ dcall.op = "WriteAt"
    /\ cpc = "NBD_CLEAR_SOCK"
    /\ store # InitStore

(* C17: NBD_SET_SOCK has succeeded on at most one node.  When it has, on
   node k, the ioctls before it are exactly one failed NBD_SET_SOCK on each
   of the nodes 0 .. k-1 in this order, k is a node that exists and the one
   Client holds, no NBD_SET_SOCK is issued after it, and every ioctl after
   it is on node k; and an ioctl other than NBD_SET_SOCK is issued only
   after a claim, hence only on the claimed node. *)
C17_OneNode ==
    /\ Cardinality(Claims) <= 1
    /\ \A c \in Claims :
         /\ ioctls[c].node = c - 1
         /\ ioctls[c].node < nodes
         /\ nbd = ioctls[c].node
         /\ \A j \in 1..(c - 1) : ioctls[j] = Ioctl(j - 1, "NBD_SET_SOCK", 0, "fail")
         /\ \A j \in (c + 1)..Len(ioctls) :
              ioctls[j].node = ioctls[c].node /\ ioctls[j].op # "NBD_SET_SOCK"
    /\ \A j \in 1..Len(ioctls) :
         ioctls[j].op # "NBD_SET_SOCK" => \E c \in Claims : c < j

\* node 0 rejected NBD_SET_SOCK, node 1 was claimed and the session ran to
\* its end on it
C17_Witness ==
    /\ cpc = "returned" /\ err = Nil
    /\ nodes = 2 /\ nbd = 1
    /\ Claims = {2}
    /\ Len(ioctls) = 9
    /\ \A j \in 2..9 : ioctls[j].node = 1

----------------------------------------------------------------------------
(* C18, as claimed: whatever the length field of a read or write request,
   the loop never stops with the run-time fault of a slice of the scratch
   buffer that is out of range. *)
C18_Claim == panicmsg # "slice bounds out of range"

(* C19, as claimed: when Client has returned, every LockOSThread it called
   has been matched by an UnlockOSThread: the goroutine is not locked. *)
C19_Claim == cpc = "returned" => locked = 0

(* C20, as claimed: once Client has returned, the loop it started (if it
   started one) comes to its end; the only end the loop has is a panic. *)
C20_Claim == (cpc = "returned") ~> (hpc \in {"idle", "panic"})

====
